---- MODULE Spec2Model ----
(***************************************************************************)
(* CineFlow: the Express server (playlist endpoint with its one-hour       *)
(* cache, and the /stream-proxy streaming proxy).                          *)
(*                                                                         *)
(* Text is modelled as a sequence of one-character strings, so that        *)
(* concatenation, emptiness (JavaScript falsiness of '') and partial       *)
(* reads are what they are in the code.                                    *)
(***************************************************************************)
EXTENDS Integers, Sequences, FiniteSets, TLC

\* ------------------------------------------------------------- bounds
\* Concurrent GET/OPTIONS requests to the playlist endpoint.
MaxPlaylistReqs == 2
\* Chunks in one remote playlist body.
MaxBodyLen == 2
\* Clock advances.
MaxTicks == 1
\* Concurrent requests to the proxy.
MaxProxyReqs == 1
\* Body chunks of one upstream response.
MaxUpstreamChunks == 2
\* Lines of one parsed playlist text.
MaxLines == 3
\* Entries of one catalog.
MaxChannels == 4

\* ------------------------------------------------- program constants
CACHE_DURATION == 60 * 60 * 1000
IPTV_HOST == "tiralit.shop"
IPTV_PORT == 8880

\* Date.now() when the process starts (any instant later than one cache
\* window after the epoch).
BootTime == 2 * CACHE_DURATION
\* The clock advances by one of these amounts.
TickSteps == {CACHE_DURATION - 1, CACHE_DURATION}

\* ------------------------------------------------------- JS values
\* A nullable string: null, or a text.
Null == [isNull |-> TRUE, str |-> <<>>]
Str(s) == [isNull |-> FALSE, str |-> s]
\* JavaScript truthiness of a nullable string: null and '' are falsy.
Truthy(v) == ~v.isNull /\ v.str # <<>>

Chars == {"a", "b"}
\* The texts a playlist source can deliver: one of every length ('', 'a',
\* 'aa', ...) and, of the greatest length, one in each character.
RECURSIVE Repeat(_, _)
Repeat(c, n) == IF n = 0 THEN <<>> ELSE <<c>> \o Repeat(c, n - 1)
Texts == {Repeat("a", n) : n \in 0..MaxBodyLen} \cup {Repeat(c, MaxBodyLen) : c \in Chars}

\* ------------------------------------------------------ HTTP headers
\* Node stores header names case-insensitively: a header map is a function
\* from the lower-cased name to the value.
Lower(name) ==
  CASE name = "Access-Control-Allow-Origin" -> "access-control-allow-origin"
    [] name = "Access-Control-Allow-Methods" -> "access-control-allow-methods"
    [] name = "Access-Control-Allow-Headers" -> "access-control-allow-headers"
    [] name = "Access-Control-Expose-Headers" -> "access-control-expose-headers"
    [] name = "Content-Type" -> "content-type"
    [] name = "Content-Length" -> "content-length"
    [] name = "Content-Range" -> "content-range"
    [] name = "Transfer-Encoding" -> "transfer-encoding"
    [] name = "TRANSFER-ENCODING" -> "transfer-encoding"
    [] OTHER -> name

NoHeaders == [n \in {} |-> ""]
SetHeader(h, name, value) ==
  [n \in DOMAIN h \cup {Lower(name)} |-> IF n = Lower(name) THEN value ELSE h[n]]

\* A response object before anything is written to it.
NoBody == [kind |-> "none", text |-> <<>>, error |-> "", details |-> ""]
NewRes ==
  [statusCode |-> 200, headers |-> NoHeaders, headersSent |-> FALSE,
   ended |-> FALSE, body |-> NoBody, sent |-> 0]

\* res.send(text) / res.sendStatus / res.status(s).json(...): the head goes
\* out with the status set so far and the response ends.
Send(res, ctype, text) ==
  [res EXCEPT !.headers = SetHeader(res.headers, "Content-Type", ctype),
              !.headersSent = TRUE, !.ended = TRUE,
              !.body = [kind |-> "text", text |-> text, error |-> "", details |-> ""]]
Json(res, status, error, details) ==
  [res EXCEPT !.statusCode = status,
              !.headers = SetHeader(res.headers, "Content-Type", "application/json"),
              !.headersSent = TRUE, !.ended = TRUE,
              !.body = [kind |-> "json", text |-> <<>>, error |-> error, details |-> details]]
SendStatus(res, status) ==
  [res EXCEPT !.statusCode = status,
              !.headers = SetHeader(res.headers, "Content-Type", "text/plain"),
              !.headersSent = TRUE, !.ended = TRUE,
              !.body = [kind |-> "text", text |-> <<"O", "K">>, error |-> "", details |-> ""]]

\* ---------------------------------------------------- CORS middleware
CorsHeaders(res) ==
  [res EXCEPT !.headers =
     SetHeader(SetHeader(SetHeader(res.headers,
       "Access-Control-Allow-Origin", "*"),
       "Access-Control-Allow-Methods", "GET, POST, OPTIONS"),
       "Access-Control-Allow-Headers", "Origin, X-Requested-With, Content-Type, Accept, Range")]

\* IsPreflight with the test left out: every request goes on to next().
NeverPreflight(method) == FALSE

\* Line 33.
IsPreflight(method) == method = "OPTIONS"

VARIABLES
  M3U_BASE64,          \* process.env.M3U_BASE64 ('' when unset)
  M3U_URL,             \* process.env.M3U_URL ('' when unset)
  playlistCache,       \* null or the cached text
  playlistCacheTime,   \* Date.now() of the load that filled the cache
  now,                 \* Date.now()
  ticks,               \* clock advances so far
  plReq,               \* the requests to /api/playlist
  pxReq,               \* the requests to the proxy
  parse,               \* the call of parseM3U: its text, its loop, its channels
  app,                 \* the state of the App component
  player               \* what the Player component handed to the video element

vars ==
  <<M3U_BASE64, M3U_URL, playlistCache, playlistCacheTime, now, ticks, plReq, pxReq,
    parse, app, player>>

\* ---------------------------------------------------------- base64
\* Buffer.from(s, 'base64').toString('utf-8'): characters outside the
\* alphabet are skipped, decoding stops at '=', every 4 sextets give 3 bytes.
B64Alphabet ==
  <<"A","B","C","D","E","F","G","H","I","J","K","L","M","N","O","P",
    "Q","R","S","T","U","V","W","X","Y","Z","a","b","c","d","e","f",
    "g","h","i","j","k","l","m","n","o","p","q","r","s","t","u","v",
    "w","x","y","z","0","1","2","3","4","5","6","7","8","9","+","/">>
B64Value(c) == (CHOOSE i \in 1..64 : B64Alphabet[i] = c) - 1
IsB64Char(c) == \E i \in 1..64 : B64Alphabet[i] = c

RECURSIVE Sextets(_)
Sextets(s) ==
  IF s = <<>> \/ Head(s) = "=" THEN <<>>
  ELSE IF IsB64Char(Head(s)) THEN <<B64Value(Head(s))>> \o Sextets(Tail(s))
  ELSE Sextets(Tail(s))

RECURSIVE SextetsToBytes(_)
SextetsToBytes(x) ==
  IF Len(x) < 2 THEN <<>>
  ELSE LET b1 == x[1] * 4 + (x[2] \div 16) IN
       IF Len(x) = 2 THEN <<b1>>
       ELSE LET b2 == (x[2] % 16) * 16 + (x[3] \div 4) IN
            IF Len(x) = 3 THEN <<b1, b2>>
            ELSE <<b1, b2, (x[3] % 4) * 64 + x[4]>>
                   \o SextetsToBytes(SubSeq(x, 5, Len(x)))

ByteToChar(b) == CASE b = 97 -> "a" [] b = 98 -> "b" [] OTHER -> "?"
Base64ToUtf8(s) ==
  LET bytes == SextetsToBytes(Sextets(s)) IN [i \in 1..Len(bytes) |-> ByteToChar(bytes[i])]

\* The values of the M3U_BASE64 variable tried: unset, 'YQ==' (a), 'YmI=' (bb),
\* and '!!' (set, decoding to the empty text).
Base64Settings == {<<>>, <<"Y","Q","=","=">>, <<"Y","m","I","=">>, <<"!","!">>}
UrlSettings == {"", "http://playlist.example/list.m3u"}

\* ------------------------------------------------------ file system
Absent == [exists |-> FALSE, readable |-> FALSE, text |-> <<>>]
Unreadable == [exists |-> TRUE, readable |-> FALSE, text |-> <<>>]
File(text) == [exists |-> TRUE, readable |-> TRUE, text |-> text]
\* data/playlist.m3u and public/canais.m3u as a request may find them.
DataFiles == {Absent, Unreadable, File(<<"a">>), File(<<>>)}
PublicFiles == {Absent, File(<<"b">>)}

\* ----------------------------------------------------- playlist cache
Pair(c, t) == [cache |-> c, time |-> t]
EmptyPair == Pair(Null, 0)

\* CacheFresh with the window's boundary included (<= for <).
CacheFreshInclusive(cache, cacheTime, t) ==
  Truthy(cache) /\ (t - cacheTime) <= CACHE_DURATION

\* Line 72: the cache answers when it is truthy and younger than the window.
CacheFresh(cache, cacheTime, t) == Truthy(cache) /\ (t - cacheTime) < CACHE_DURATION

\* Lines 127-128: the cache is overwritten with the loaded text and the time.
StoreCache(content, t) == Pair(Str(content), t)

\* OnData with the chunk assigned instead of appended (data = chunk).
OnDataAssign(data, chunk) == <<chunk>>

\* fetchUrl, line 147: data += chunk
OnData(data, chunk) == data \o <<chunk>>

PlReqs == 1..MaxPlaylistReqs

IdlePl ==
  [st |-> "idle", method |-> "", src |-> "none", data |-> <<>>, rest |-> <<>>,
   full |-> <<>>, res |-> NewRes, seen |-> Null, age |-> 0,
   stored |-> EmptyPair, doneAt |-> 0, files |-> <<>>]

\* Requests are taken in the order of their numbers (they are interchangeable).
NextToArrive(reqs, r) == reqs[r].st = "idle" /\ \A q \in DOMAIN reqs : q < r => reqs[q].st # "idle"

\* Lines 124-131: cache the loaded content and send it.
Loaded(r, q, content) ==
  LET p == StoreCache(content, now) IN
  /\ playlistCache' = p.cache
  /\ playlistCacheTime' = p.time
  /\ plReq' = [plReq EXCEPT ![r] =
       [q EXCEPT !.st = "done", !.full = IF q.src = "url" THEN q.full ELSE content,
                 !.res = Send(q.res, "audio/x-mpegurl", content),
                 !.stored = p, !.doneAt = now]]

\* Lines 132-135: the catch block.
Failed(r, q, details) ==
  /\ plReq' = [plReq EXCEPT ![r] =
       [q EXCEPT !.st = "done",
                 !.res = Json(q.res, 500, "Failed to load playlist", details)]]
  /\ UNCHANGED <<playlistCache, playlistCacheTime>>

\* An OPTIONS request to the playlist endpoint: answered by the middleware.
PlaylistOptions(r) ==
  /\ NextToArrive(plReq, r)
  /\ IsPreflight("OPTIONS")
  /\ plReq' = [plReq EXCEPT ![r] =
       [IdlePl EXCEPT !.st = "done", !.method = "OPTIONS",
                      !.res = SendStatus(CorsHeaders(NewRes), 200)]]
  /\ UNCHANGED <<M3U_BASE64, M3U_URL, playlistCache, playlistCacheTime, now, ticks, pxReq, parse, app, player>>

\* SourceOf looking at the public file before the private one.
SourceOfPublicFirst(base64, url, dataFile, publicFile) ==
  IF base64 # <<>> THEN "base64"
  ELSE IF url # "" THEN "url"
  ELSE IF publicFile.exists THEN "public"
  ELSE IF dataFile.exists THEN "data"
  ELSE "unconfigured"

\* Lines 91-121: the source a cache miss loads from.
SourceOf(base64, url, dataFile, publicFile) ==
  IF base64 # <<>> THEN "base64"
  ELSE IF url # "" THEN "url"
  ELSE IF dataFile.exists THEN "data"
  ELSE IF publicFile.exists THEN "public"
  ELSE "unconfigured"

\* GET /api/playlist up to its first suspension (or its end).
PlaylistGet(r) ==
  /\ NextToArrive(plReq, r)
  /\ ~IsPreflight("GET")
  /\ \E dataFile \in DataFiles, publicFile \in PublicFiles :
       LET fresh == CacheFresh(playlistCache, playlistCacheTime, now)
           src == SourceOf(M3U_BASE64, M3U_URL, dataFile, publicFile)
           q == [IdlePl EXCEPT !.method = "GET",
                               !.seen = playlistCache,
                               !.age = IF playlistCache.isNull THEN 0
                                       ELSE now - playlistCacheTime,
                               !.files = IF fresh \/ src \in {"base64", "url"}
                                         THEN <<>> ELSE <<dataFile, publicFile>>,
                               !.res = CorsHeaders(NewRes)]
       IN
       IF fresh
       THEN /\ plReq' = [plReq EXCEPT ![r] =
                 [q EXCEPT !.st = "done", !.src = "cache",
                           !.res = Send(q.res, "audio/x-mpegurl", playlistCache.str)]]
            /\ UNCHANGED <<playlistCache, playlistCacheTime>>
       ELSE IF src = "base64"
       THEN Loaded(r, [q EXCEPT !.src = "base64"], Base64ToUtf8(M3U_BASE64))
       ELSE IF src = "url"
       THEN /\ plReq' = [plReq EXCEPT ![r] = [q EXCEPT !.st = "connecting", !.src = "url"]]
            /\ UNCHANGED <<playlistCache, playlistCacheTime>>
       ELSE IF src = "data"
       THEN IF dataFile.readable
            THEN Loaded(r, [q EXCEPT !.src = "data"], dataFile.text)
            ELSE Failed(r, [q EXCEPT !.src = "data"], "EACCES")
       ELSE IF src = "public"
       THEN IF publicFile.readable
            THEN Loaded(r, [q EXCEPT !.src = "public"], publicFile.text)
            ELSE Failed(r, [q EXCEPT !.src = "public"], "EACCES")
       ELSE /\ plReq' = [plReq EXCEPT ![r] =
                 [q EXCEPT !.st = "done", !.src = "unconfigured",
                           !.res = Json(q.res, 404, "Playlist not configured",
                                        "dirname, files")]]
            /\ UNCHANGED <<playlistCache, playlistCacheTime>>
  /\ UNCHANGED <<M3U_BASE64, M3U_URL, now, ticks, pxReq, parse, app, player>>

\* fetchUrl, lines 142-146: the remote answers; a status other than 200 rejects.
FetchResponse(r) ==
  /\ plReq[r].st = "connecting"
  /\ \E status \in {200, 404}, body \in Texts :
       IF status # 200
       THEN Failed(r, plReq[r], "HTTP 404")
       ELSE /\ plReq' = [plReq EXCEPT ![r] =
                 [@ EXCEPT !.st = "reading", !.data = <<>>, !.rest = body, !.full = body]]
            /\ UNCHANGED <<playlistCache, playlistCacheTime>>
  /\ UNCHANGED <<M3U_BASE64, M3U_URL, now, ticks, pxReq, parse, app, player>>

\* fetchUrl, line 147: one chunk of the body arrives.
FetchData(r) ==
  /\ plReq[r].st = "reading"
  /\ plReq[r].rest # <<>>
  /\ plReq' = [plReq EXCEPT ![r] =
       [@ EXCEPT !.data = OnData(@, Head(plReq[r].rest)), !.rest = Tail(@)]]
  /\ UNCHANGED <<M3U_BASE64, M3U_URL, playlistCache, playlistCacheTime, now, ticks, pxReq, parse, app, player>>

\* fetchUrl, line 148: the body ends, the promise resolves and the handler resumes.
FetchEnd(r) ==
  /\ plReq[r].st = "reading"
  /\ plReq[r].rest = <<>>
  /\ Loaded(r, plReq[r], plReq[r].data)
  /\ UNCHANGED <<M3U_BASE64, M3U_URL, now, ticks, pxReq, parse, app, player>>

\* fetchUrl, line 149: the request errors (before or during the body).
FetchError(r) ==
  /\ plReq[r].st \in {"connecting", "reading"}
  /\ Failed(r, [plReq[r] EXCEPT !.data = <<>>, !.rest = <<>>], "ECONNRESET")
  /\ UNCHANGED <<M3U_BASE64, M3U_URL, now, ticks, pxReq, parse, app, player>>

\* The connection closes during the body without an error on the request:
\* neither 'end' nor 'error' fires, the promise never settles.
FetchAbort(r) ==
  /\ plReq[r].st = "reading"
  /\ plReq[r].rest # <<>>
  /\ plReq' = [plReq EXCEPT ![r] = [@ EXCEPT !.st = "hung", !.data = <<>>, !.rest = <<>>]]
  /\ UNCHANGED <<M3U_BASE64, M3U_URL, playlistCache, playlistCacheTime, now, ticks, pxReq, parse, app, player>>

\* Date.now() advances.
Tick ==
  /\ ticks < MaxTicks
  /\ \E d \in TickSteps : now' = now + d
  /\ ticks' = ticks + 1
  /\ UNCHANGED <<M3U_BASE64, M3U_URL, playlistCache, playlistCacheTime, plReq, pxReq, parse, app, player>>

\* ------------------------------------------------------ stream proxy
PxReqs == 1..MaxProxyReqs

Methods == {"GET", "OPTIONS"}
\* Where a request lands: the two API mounts and the static fallback.
Mounts == {"/stream-proxy", "/api/playlist", "/"}
\* req.url inside the mount: the sub-path and the query.
SubPaths == {"/live/1.ts", "/movie/2.mp4?token=x"}

\* Inbound header maps (Node lower-cases the names): with no header, with a
\* browser's headers, with an empty Range, with a Range among a browser's
\* headers.
BrowserHeaders ==
  ("cookie" :> "sid=1") @@ ("referer" :> "http://localhost/") @@
  ("origin" :> "http://localhost") @@ ("user-agent" :> "Mozilla/5.0") @@
  ("host" :> "localhost:3000")
InboundHeaders ==
  {NoHeaders, BrowserHeaders, "range" :> "", ("range" :> "bytes=1000-") @@ BrowserHeaders}

\* Upstream response heads: the status and the headers.
UpstreamHeads ==
  { [statusCode |-> 200, headers |-> ("content-type" :> "video/mp2t")],
    [statusCode |-> 200,
     headers |-> ("content-type" :> "video/mp2t") @@ ("transfer-encoding" :> "chunked")],
    [statusCode |-> 206,
     headers |-> ("content-type" :> "video/mp4") @@
                 ("content-range" :> "bytes 1000-1999/2000") @@
                 ("access-control-allow-origin" :> "http://tiralit.shop")] }

\* The middleware chain: which handler answers a request.
Route(method, mount) ==
  IF IsPreflight(method) THEN "cors"
  ELSE IF mount = "/api/playlist" /\ method \in {"GET", "HEAD"} THEN "playlist"
  ELSE IF mount = "/stream-proxy" THEN "proxy"
  ELSE "static"

NoOptions == [hostname |-> "", port |-> 0, path |-> "", method |-> "", headers |-> NoHeaders]
NoProxyRes == [statusCode |-> 0, headers |-> NoHeaders, chunks |-> 0]

\* Lines 164-172: the headers every upstream request carries.
FixedHeaders ==
  ("User-Agent" :> "Lavf/60.3.100") @@ ("Accept" :> "*/*") @@
  ("Accept-Language" :> "en-US,en;q=0.9") @@ ("Accept-Encoding" :> "identity") @@
  ("Connection" :> "keep-alive") @@
  ("Host" :> (IPTV_HOST \o ":" \o ToString(IPTV_PORT))) @@
  ("Icy-MetaData" :> "1")

\* Line 176: if (req.headers.range): the header is there and is not ''.
HasRange(headers) == "range" \in DOMAIN headers /\ headers["range"] # ""

\* Lines 159-178.
ProxyOptions(method, url, headers) ==
  [hostname |-> IPTV_HOST, port |-> IPTV_PORT, path |-> url, method |-> method,
   headers |-> IF HasRange(headers)
               THEN FixedHeaders @@ ("Range" :> headers["range"])
               ELSE FixedHeaders]

\* ForwardHeaders with no header left out.
ForwardEveryHeader(h, up, keys) ==
  [n \in DOMAIN h \cup {Lower(k) : k \in keys} |->
     IF \E k \in keys : Lower(k) = n THEN up[CHOOSE k \in keys : Lower(k) = n] ELSE h[n]]

\* Lines 187-191: every upstream header but transfer-encoding is set on res.
RECURSIVE ForwardHeaders(_, _, _)
ForwardHeaders(h, up, keys) ==
  IF keys = {} THEN h
  ELSE LET key == CHOOSE k \in keys : TRUE IN
       ForwardHeaders(IF Lower(key) \notin {"transfer-encoding"}
                      THEN SetHeader(h, key, up[key]) ELSE h,
                      up, keys \ {key})

\* Lines 181-194: the response callback, up to the pipe.
OnProxyResponse(res, proxyRes) ==
  LET cors == SetHeader(SetHeader(SetHeader(res.headers,
                "Access-Control-Allow-Origin", "*"),
                "Access-Control-Allow-Methods", "GET, OPTIONS"),
                "Access-Control-Expose-Headers", "Content-Length, Content-Range, Content-Type")
  IN [res EXCEPT !.headers = ForwardHeaders(cors, proxyRes.headers, DOMAIN proxyRes.headers),
                 !.statusCode = proxyRes.statusCode]

\* proxyRes.pipe(res): a chunk is written (the head goes out with the first
\* one); the upstream's end ends the response.
Write(res) ==
  [res EXCEPT !.headersSent = TRUE, !.sent = @ + 1, !.body = [@ EXCEPT !.kind = "stream"]]
End(res) == [res EXCEPT !.headersSent = TRUE, !.ended = TRUE]

\* OnProxyError without the headersSent test.
OnProxyErrorNoGuard(q, msg) ==
  [q EXCEPT !.res = Json(q.res, 502, "Stream unavailable", msg),
            !.hist = q.hist \o <<"UpstreamError", "Closed">>]

\* OnProxyError issuing the upstream request again.
OnProxyErrorRetry(q, msg) ==
  [q EXCEPT !.proxyReq = "open", !.upstreams = @ + 1,
            !.hist = q.hist \o <<"UpstreamError", "UpstreamConnecting">>]

\* Lines 197-202: proxyReq.on('error').
OnProxyError(q, msg) ==
  IF ~q.res.headersSent
  THEN [q EXCEPT !.res = Json(q.res, 502, "Stream unavailable", msg),
                 !.hist = q.hist \o <<"UpstreamError", "Closed">>]
  ELSE q

\* Destroy doing nothing.
DestroyNothing(proxyReq) == proxyReq

\* proxyReq.destroy(): a request still waiting for its response will emit
\* 'error' (socket hang up); one whose response is arriving is cut silently;
\* a finished one is left as it is.
Destroy(proxyReq) ==
  CASE proxyReq = "open" -> "destroying"
    [] proxyReq = "response" -> "destroyed"
    [] OTHER -> proxyReq

IdlePx ==
  [st |-> "idle", method |-> "", mount |-> "", url |-> "", headers |-> NoHeaders,
   client |-> "open", proxyReq |-> "none", upstreams |-> 0, proxyOptions |-> NoOptions,
   proxyRes |-> NoProxyRes, res |-> NewRes, errorSeen |-> "none", hist |-> <<>>]

\* Everything but the proxy's requests.
PlaylistVars ==
  <<M3U_BASE64, M3U_URL, playlistCache, playlistCacheTime, now, ticks, plReq, parse, app,
    player>>

\* Lines 28-35: an OPTIONS request, on any path, ends in the middleware.
Preflight(r) ==
  /\ NextToArrive(pxReq, r)
  /\ \E method \in Methods, mount \in Mounts, url \in SubPaths, headers \in InboundHeaders :
       /\ Route(method, mount) = "cors"
       /\ pxReq' = [pxReq EXCEPT ![r] =
            [IdlePx EXCEPT !.st = "done", !.method = method, !.mount = mount,
                           !.url = url, !.headers = headers,
                           !.res = SendStatus(CorsHeaders(NewRes), 200)]]
  /\ UNCHANGED PlaylistVars

\* Lines 154-206: the proxy handler, from the middleware to proxyReq.end().
ProxyRequest(r) ==
  /\ NextToArrive(pxReq, r)
  /\ \E method \in Methods, url \in SubPaths, headers \in InboundHeaders :
       /\ Route(method, "/stream-proxy") = "proxy"
       /\ pxReq' = [pxReq EXCEPT ![r] =
            [IdlePx EXCEPT !.st = "proxying", !.method = method, !.mount = "/stream-proxy",
                           !.url = url, !.headers = headers,
                           !.res = CorsHeaders(NewRes),
                           !.proxyOptions = ProxyOptions(method, url, headers),
                           !.proxyReq = "open", !.upstreams = 1,
                           !.hist = <<"Received", "UpstreamConnecting">>]]
  /\ UNCHANGED PlaylistVars

\* Lines 180-195: the upstream's response head arrives.
UpstreamResponse(r) ==
  /\ pxReq[r].proxyReq = "open"
  /\ \E head \in UpstreamHeads, n \in 0..MaxUpstreamChunks :
       LET proxyRes == [statusCode |-> head.statusCode, headers |-> head.headers,
                        chunks |-> n] IN
       pxReq' = [pxReq EXCEPT ![r] =
         [@ EXCEPT !.proxyReq = "response", !.proxyRes = proxyRes,
                   !.res = OnProxyResponse(@, proxyRes),
                   !.hist = @ \o <<"UpstreamHeaders", "Streaming">>]]
  /\ UNCHANGED PlaylistVars

\* Line 194: the pipe passes one chunk on.
UpstreamData(r) ==
  /\ pxReq[r].proxyReq = "response"
  /\ pxReq[r].proxyRes.chunks > 0
  /\ pxReq' = [pxReq EXCEPT ![r] =
       [@ EXCEPT !.proxyRes = [@ EXCEPT !.chunks = @ - 1], !.res = Write(@)]]
  /\ UNCHANGED PlaylistVars

\* Line 194: the upstream body ends and the pipe ends the response.
UpstreamEnd(r) ==
  /\ pxReq[r].proxyReq = "response"
  /\ pxReq[r].proxyRes.chunks = 0
  /\ pxReq' = [pxReq EXCEPT ![r] =
       [@ EXCEPT !.proxyReq = "finished", !.res = End(@), !.hist = @ \o <<"Closed">>]]
  /\ UNCHANGED PlaylistVars

\* Lines 197-202: the upstream request emits 'error' (refused, reset; before
\* or after the response head).
UpstreamError(r) ==
  /\ pxReq[r].proxyReq \in {"open", "response"}
  /\ \E msg \in IF pxReq[r].proxyReq = "open"
                THEN {"connect ECONNREFUSED", "read ECONNRESET"}
                ELSE {"read ECONNRESET"} :
       pxReq' = [pxReq EXCEPT ![r] =
         OnProxyError([@ EXCEPT !.proxyReq = "failed",
                                !.proxyRes = [@ EXCEPT !.chunks = 0],
                                !.errorSeen = IF pxReq[r].res.headersSent THEN "after" ELSE "before"],
                      msg)]
  /\ UNCHANGED PlaylistVars

\* The upstream connection closes in the middle of the body without an
\* 'error' on the request: proxyRes gets no 'end', the pipe does nothing.
UpstreamAbort(r) ==
  /\ pxReq[r].proxyReq = "response"
  /\ pxReq[r].proxyRes.chunks > 0
  /\ pxReq' = [pxReq EXCEPT ![r] =
       [@ EXCEPT !.proxyReq = "aborted", !.proxyRes = [@ EXCEPT !.chunks = 0]]]
  /\ UNCHANGED PlaylistVars

\* Line 204: req.on('close'): the client's connection closes.
ClientClose(r) ==
  /\ pxReq[r].st = "proxying"
  /\ pxReq[r].client = "open"
  /\ pxReq' = [pxReq EXCEPT ![r] =
       [@ EXCEPT !.client = "closed", !.proxyReq = Destroy(@),
                 !.proxyRes = [@ EXCEPT !.chunks = IF Destroy(pxReq[r].proxyReq) = "destroyed"
                                                   THEN 0 ELSE @],
                 !.hist = IF @[Len(@)] = "Closed" \/ pxReq[r].proxyReq = "open"
                          THEN @ ELSE @ \o <<"Closed">>]]
  /\ UNCHANGED PlaylistVars

\* Lines 197-202: the 'error' that destroying a waiting request emits.
DestroyError(r) ==
  /\ pxReq[r].proxyReq = "destroying"
  /\ pxReq' = [pxReq EXCEPT ![r] =
       OnProxyError([@ EXCEPT !.proxyReq = "destroyed",
                              !.errorSeen = IF pxReq[r].res.headersSent THEN "after" ELSE "before"],
                    "socket hang up")]
  /\ UNCHANGED PlaylistVars

\* ------------------------------------------------ JavaScript strings
\* The playlist text, its lines and the fields of a channel are strings;
\* Len, SubSeq and \o give their length, their substrings and concatenation.
\* The character at position i (from 1), '' outside the string; the rest from i.
At(s, i) == IF i >= 1 /\ i <= Len(s) THEN SubSeq(s, i, i) ELSE ""
From(s, i) == IF i >= 1 /\ i <= Len(s) THEN SubSeq(s, i, Len(s)) ELSE ""

\* String.prototype.startsWith / indexOf / includes.
StartsWith(s, p) == Len(s) >= Len(p) /\ SubSeq(s, 1, Len(p)) = p
Occurrences(s, p, from) ==
  {i \in from..(Len(s) - Len(p) + 1) : SubSeq(s, i, i + Len(p) - 1) = p}
\* The position (from 1) of the first occurrence at or after from; 0 if none.
IndexOf(s, p, from) ==
  LET occ == Occurrences(s, p, from) IN
  IF occ = {} THEN 0 ELSE CHOOSE i \in occ : \A j \in occ : i <= j
Includes(s, p) == p = "" \/ IndexOf(s, p, 1) # 0

\* White space (what trim() removes and \s matches), among the characters used.
IsSpace(c) == c \in {" ", "\t", "\r", "\n", "\f"}
UpperCase == "ABCDEFGHIJKLMNOPQRSTUVWXYZ"
LowerCase == "abcdefghijklmnopqrstuvwxyz"
Digits == "0123456789"
\* The characters of a string, as a set.
CharSet(s) == {SubSeq(s, i, i) : i \in 1..Len(s)}
DigitChars == CharSet(Digits)
AlnumChars == CharSet(UpperCase) \cup CharSet(LowerCase) \cup DigitChars
\* \d
IsDigit(c) == c \in DigitChars
\* [a-zA-Z0-9]
IsAlnum(c) == c \in AlnumChars

\* String.prototype.trim.
RECURSIVE TrimStart(_)
TrimStart(s) == IF s # "" /\ IsSpace(At(s, 1)) THEN TrimStart(From(s, 2)) ELSE s
RECURSIVE TrimEnd(_)
TrimEnd(s) ==
  IF s # "" /\ IsSpace(At(s, Len(s))) THEN TrimEnd(SubSeq(s, 1, Len(s) - 1)) ELSE s
Trim(s) == TrimEnd(TrimStart(s))

\* String.prototype.toLowerCase, for the letters A-Z.
LowerOf == [c \in CharSet(UpperCase) |-> At(LowerCase, IndexOf(UpperCase, c, 1))]
LowerChar(c) == IF c \in DOMAIN LowerOf THEN LowerOf[c] ELSE c
RECURSIVE ToLowerCase(_)
ToLowerCase(s) == IF s = "" THEN "" ELSE LowerChar(At(s, 1)) \o ToLowerCase(From(s, 2))

\* String.prototype.split with a one-character separator.
RECURSIVE Split(_, _)
Split(s, sep) ==
  LET i == IndexOf(s, sep, 1) IN
  IF i = 0 THEN <<s>> ELSE <<SubSeq(s, 1, i - 1)>> \o Split(From(s, i + 1), sep)

\* The length of the longest run of characters satisfying a class, from i.
RECURSIVE SpaceRun(_, _)
SpaceRun(s, i) == IF i <= Len(s) /\ IsSpace(At(s, i)) THEN 1 + SpaceRun(s, i + 1) ELSE 0
RECURSIVE DigitRun(_, _)
DigitRun(s, i) == IF i <= Len(s) /\ IsDigit(At(s, i)) THEN 1 + DigitRun(s, i + 1) ELSE 0
RECURSIVE AlnumRun(_, _)
AlnumRun(s, i) == IF i <= Len(s) /\ IsAlnum(At(s, i)) THEN 1 + AlnumRun(s, i + 1) ELSE 0

\* parseInt(s, 10) of a string of decimal digits.
RECURSIVE ParseInt(_)
ParseInt(s) ==
  IF s = "" THEN 0
  ELSE 10 * ParseInt(SubSeq(s, 1, Len(s) - 1)) + (IndexOf(Digits, At(s, Len(s)), 1) - 1)

\* The result of String.prototype.match: null, or the captured groups.
NoMatch == [matched |-> FALSE, groups |-> <<>>]
Match(groups) == [matched |-> TRUE, groups |-> groups]

\* ------------------------------------------------------- fixImageUrl
\* Line 41: /\/images\/([a-zA-Z0-9]+)(?:_small)?\.jpg/ at the first position
\* where it matches.
ImageMatchAt(url, i) ==
  LET n == AlnumRun(url, i + 8)
      after == From(url, i + 8 + n) IN
  IF StartsWith(From(url, i), "/images/") /\ n >= 1
     /\ (StartsWith(after, ".jpg") \/ StartsWith(after, "_small.jpg"))
  THEN Match(<<SubSeq(url, i + 8, i + 7 + n)>>)
  ELSE NoMatch
ImageMatch(url) ==
  LET at == {i \in 1..Len(url) : ImageMatchAt(url, i).matched} IN
  IF at = {} THEN NoMatch ELSE ImageMatchAt(url, CHOOSE i \in at : \A j \in at : i <= j)

\* fixImageUrl rewriting the URLs of every host.
fixImageUrlAnyHost(url) ==
  IF url = "" THEN ""
  ELSE IF ImageMatch(url).matched
       THEN "https://image.tmdb.org/t/p/w500/" \o ImageMatch(url).groups[1] \o ".jpg"
       ELSE url

\* Lines 34-49.
fixImageUrl(url) ==
  IF url = "" THEN ""
  ELSE IF Includes(url, "assistirpainel.net") /\ ImageMatch(url).matched
       THEN "https://image.tmdb.org/t/p/w500/" \o ImageMatch(url).groups[1] \o ".jpg"
       ELSE url

\* ---------------------------------------------------------- parseM3U
\* Lines 65-67: /attr="([^"]*)"/ at the first position where it matches.
AttrMatch(line, attr) ==
  LET open == attr \o "=\""
      i == IndexOf(line, open, 1)
      j == IF i = 0 THEN 0 ELSE IndexOf(line, "\"", i + Len(open)) IN
  IF i = 0 \/ j = 0 THEN NoMatch ELSE Match(<<SubSeq(line, i + Len(open), j - 1)>>)

\* Line 81: /^(.*?)\s+S(\d+)\s*E(\d+)/i with the title k characters long.
SeriesMatchAt(name, k) ==
  LET title == SubSeq(name, 1, k)
      sp == SpaceRun(name, k + 1)
      s == k + 1 + sp
      d1 == DigitRun(name, s + 1)
      sp2 == SpaceRun(name, s + 1 + d1)
      e == s + 1 + d1 + sp2
      d2 == DigitRun(name, e + 1) IN
  IF /\ sp >= 1
     /\ LowerChar(At(name, s)) = "s" /\ d1 >= 1
     /\ LowerChar(At(name, e)) = "e" /\ d2 >= 1
     /\ ~Includes(title, "\n") /\ ~Includes(title, "\r")
  THEN Match(<<title, SubSeq(name, s + 1, s + d1), SubSeq(name, e + 1, e + d2)>>)
  ELSE NoMatch
\* The lazy group takes the shortest title for which the rest matches.
SeriesMatch(name) ==
  LET at == {k \in 0..Len(name) : SeriesMatchAt(name, k).matched} IN
  IF at = {} THEN NoMatch ELSE SeriesMatchAt(name, CHOOSE k \in at : \A j \in at : k <= j)

\* Lines 82-90: the series fields, or no field at all.
NoFields == [f \in {} |-> ""]
SeriesCheck(currentName) ==
  LET seriesMatch == SeriesMatch(currentName) IN
  IF seriesMatch.matched
  THEN [seriesName |-> Trim(seriesMatch.groups[1]),
        season |-> ParseInt(seriesMatch.groups[2]),
        episode |-> ParseInt(seriesMatch.groups[3])]
  ELSE NoFields

\* Lines 54-57 and 102-105: the pending fields.
Pending(group, logo, id, name) ==
  [currentGroup |-> group, currentLogo |-> logo, currentId |-> id, currentName |-> name]
NoPending == Pending("Uncategorized", "", "", "")

\* Lines 65-77: the pending fields a #EXTINF line gives.
Extinf(line) ==
  LET groupMatch == AttrMatch(line, "group-title")
      logoMatch == AttrMatch(line, "tvg-logo")
      idMatch == AttrMatch(line, "tvg-id")
      nameParts == Split(line, ",")
      name == Trim(nameParts[Len(nameParts)]) IN
  Pending(IF groupMatch.matched THEN groupMatch.groups[1] ELSE "Uncategorized",
          fixImageUrl(IF logoMatch.matched THEN logoMatch.groups[1] ELSE ""),
          IF idMatch.matched THEN idMatch.groups[1] ELSE "",
          name)

\* Lines 92-99: the channel pushed for a playback line.
NewChannel(cur, line, count) ==
  [id |-> IF cur.currentId # "" THEN cur.currentId ELSE "ch-" \o ToString(count),
   name |-> IF cur.currentName # "" THEN cur.currentName ELSE "Unknown Channel",
   group |-> cur.currentGroup,
   logo |-> cur.currentLogo,
   url |-> line] @@ SeriesCheck(cur.currentName)

\* NextPending keeping the pending fields after a playback line.
NextPendingKept(cur, line) ==
  IF line = "" THEN cur
  ELSE IF StartsWith(line, "#EXTINF:") THEN Extinf(line)
  ELSE cur

\* Lines 60-106: the pending fields after a (trimmed) line.
NextPending(cur, line) ==
  IF line = "" THEN cur
  ELSE IF StartsWith(line, "#EXTINF:") THEN Extinf(line)
  ELSE IF ~StartsWith(line, "#") THEN NoPending
  ELSE cur

\* LoopBody pushing a channel for every line that is not blank.
LoopBodyEveryLine(p, rawLine) ==
  LET line == Trim(rawLine) IN
  [p EXCEPT !.i = @ + 1,
            !.channels = IF line # ""
                         THEN Append(@, NewChannel(p.current, line, Len(p.channels)))
                         ELSE @,
            !.current = NextPending(@, line)]

\* Lines 59-107: one turn of the loop.
LoopBody(p, rawLine) ==
  LET line == Trim(rawLine) IN
  [p EXCEPT !.i = @ + 1,
            !.channels = IF line # "" /\ ~StartsWith(line, "#")
                         THEN Append(@, NewChannel(p.current, line, Len(p.channels)))
                         ELSE @,
            !.current = NextPending(@, line)]

\* Lines 52-57: the call, before the loop.
StartParse(content) ==
  [st |-> "loop", content |-> content, lines |-> Split(content, "\n"), i |-> 0,
   channels |-> <<>>, current |-> NoPending]
\* No call of parseM3U is going on.
IdleParse ==
  [st |-> "idle", content |-> "", lines |-> <<>>, i |-> 0,
   channels |-> <<>>, current |-> NoPending]

\* parseM3U as a function: the channels returned for a text.
RECURSIVE RunLoop(_)
RunLoop(p) == IF p.i < Len(p.lines) THEN RunLoop(LoopBody(p, p.lines[p.i + 1])) ELSE p
parseM3U(content) == RunLoop(StartParse(content)).channels

\* The lines the sample playlists are made of.
SampleLines ==
  { "#EXTM3U",
    "  ",
    "#EXTINF:-1 tvg-id=\"bb\" tvg-logo=\"http://assistirpainel.net:8080/images/abc123_small.jpg\" group-title=\"Series\",Breaking Bad S02 E05",
    "#EXTINF:-1 group-title=\"Movies\",Inception (2010)",
    "#EXTINF:-1 tvg-id=\"\" tvg-logo=\"http://logo.example/x.png\",",
    "#EXTINF:-1,Lost S00 E01",
    "#EXTINF:-1,Dark s01e02 - Secrets",
    " http://tiralit.shop:8880/live/1.ts\r",
    "http://tiralit.shop:8880/movie/2.mp4" }

RECURSIVE JoinLines(_)
JoinLines(ls) ==
  IF ls = <<>> THEN ""
  ELSE IF Len(ls) = 1 THEN ls[1]
  ELSE ls[1] \o "\n" \o JoinLines(Tail(ls))
\* The playlist texts parsed: every text of at most MaxLines sample lines.
Playlists == {JoinLines(ls) : ls \in UNION {[1..n -> SampleLines] : n \in 0..MaxLines}}

\* The logo URLs of the sample entries: where the image is served from, the
\* directory, the image identifier and what follows it.
SampleLogos ==
  {host \o dir \o id \o suffix :
     host \in {"http://assistirpainel.net:8080", "https://cdn.assistirpainel.net",
               "https://images.weserv.nl/?url=assistirpainel.net:8080",
               "http://img.tiralit.shop"},
     dir \in {"/images/", "/img/", "/static/images/"},
     id \in {"vGrS1mzlSHQQ", "9", "a-b", ""},
     suffix \in {".jpg", "_small.jpg", ".png", "_big.jpg", "_small.jpg?w=92"}}
  \cup {"", "assistirpainel.net", "http://assistirpainel.net:8080/"}
\* The playlist of one entry with a logo.
LogoPlaylist(url) ==
  "#EXTINF:-1 tvg-logo=\"" \o url \o "\" group-title=\"TV\",News\nhttp://tiralit.shop:8880/live/1.ts"

\* Lines 59-107: the loop takes the next line.
ParseLine ==
  /\ parse.st = "loop"
  /\ parse.i < Len(parse.lines)
  /\ parse' = LoopBody(parse, parse.lines[parse.i + 1])
  /\ UNCHANGED <<M3U_BASE64, M3U_URL, playlistCache, playlistCacheTime, now, ticks, plReq, pxReq, app, player>>

\* Line 109: the loop is over, the channels are returned.
ParseReturn ==
  /\ parse.st = "loop"
  /\ parse.i = Len(parse.lines)
  /\ parse' = [parse EXCEPT !.st = "returned"]
  /\ UNCHANGED <<M3U_BASE64, M3U_URL, playlistCache, playlistCacheTime, now, ticks, plReq, pxReq, app, player>>

\* ------------------------------------------------------------ App
\* The order of UTF-16 code units (Array.prototype.sort without a comparator),
\* for the space, the digits and the letters.
CodeUnits == " 0123456789ABCDEFGHIJKLMNOPQRSTUVWXYZabcdefghijklmnopqrstuvwxyz"
RECURSIVE StringLess(_, _)
StringLess(a, b) ==
  IF b = "" THEN FALSE
  ELSE IF a = "" THEN TRUE
  ELSE IF At(a, 1) = At(b, 1) THEN StringLess(From(a, 2), From(b, 2))
  ELSE IndexOf(CodeUnits, At(a, 1), 1) < IndexOf(CodeUnits, At(b, 1), 1)

\* Line 52: the group names of the parsed channels.
Groups(channels) == {channels[k].group : k \in 1..Len(channels)}
\* Lines 52-53: groups[0] of the sorted group names.
FirstGroup(channels) ==
  CHOOSE g \in Groups(channels) : \A h \in Groups(channels) : h = g \/ StringLess(g, h)

\* c.seriesName as a condition: the field is there and is not ''.
HasSeriesName(c) == "seriesName" \in DOMAIN c /\ c.seriesName # ""

\* Lines 74-86.
filteredChannels(channels, selectedCategory, searchQuery) ==
  IF selectedCategory = "" /\ searchQuery = "" THEN <<>>
  ELSE LET byCategory ==
             IF selectedCategory # ""
             THEN SelectSeq(channels, LAMBDA c : c.group = selectedCategory)
             ELSE channels
           q == ToLowerCase(searchQuery) IN
       IF searchQuery # ""
       THEN SelectSeq(byCategory, LAMBDA c : Includes(ToLowerCase(c.name), q))
       ELSE byCategory

\* MoreThanHalf with the boundary included (>= for >).
AtLeastHalf(k, n) == 2 * k >= n

\* Line 92: (k / n) > 0.5, for n > 0; the quotient of two array lengths is
\* above one half exactly when twice the first is above the second.
MoreThanHalf(k, n) == 2 * k > n

\* Lines 91-92.
isSeriesView(filtered) ==
  LET seriesItems == SelectSeq(filtered, HasSeriesName) IN
  Len(seriesItems) > 0 /\ MoreThanHalf(Len(seriesItems), Len(filtered))

\* a.season || 0 and a.episode || 0: an absent number, like 0, gives 0.
OrZero(c, field) == IF field \in DOMAIN c THEN c[field] ELSE 0
\* e.season || 1: an absent season, like season 0, gives 1.
SeasonOrOne(e) == IF "season" \in DOMAIN e /\ e.season # 0 THEN e.season ELSE 1

\* Lines 122-127: the comparator is negative, a sorts before b.
EpisodeBefore(a, b) ==
  LET sA == OrZero(a, "season")
      sB == OrZero(b, "season") IN
  IF sA # sB THEN sA < sB ELSE OrZero(a, "episode") < OrZero(b, "episode")

\* Array.prototype.sort is stable: an episode goes behind the episodes the
\* comparator does not put it before.
RECURSIVE InsertEpisode(_, _)
InsertEpisode(sorted, c) ==
  IF sorted = <<>> THEN <<c>>
  ELSE IF EpisodeBefore(c, Head(sorted)) THEN <<c>> \o sorted
  ELSE <<Head(sorted)>> \o InsertEpisode(Tail(sorted), c)
RECURSIVE SortEpisodes(_)
SortEpisodes(episodes) ==
  IF episodes = <<>> THEN <<>>
  ELSE InsertEpisode(SortEpisodes(SubSeq(episodes, 1, Len(episodes) - 1)),
                     episodes[Len(episodes)])

\* SeriesNames with a key for every entry that has a seriesName.
RECURSIVE SeriesNamesEveryEntry(_)
SeriesNamesEveryEntry(filtered) ==
  IF filtered = <<>> THEN <<>>
  ELSE LET before == SeriesNamesEveryEntry(SubSeq(filtered, 1, Len(filtered) - 1))
           c == filtered[Len(filtered)] IN
       IF HasSeriesName(c) THEN Append(before, c.seriesName) ELSE before

\* Lines 101-118: the keys of seriesMap, in the order they were inserted.
RECURSIVE SeriesNames(_)
SeriesNames(filtered) ==
  IF filtered = <<>> THEN <<>>
  ELSE LET before == SeriesNames(SubSeq(filtered, 1, Len(filtered) - 1))
           c == filtered[Len(filtered)] IN
       IF HasSeriesName(c) /\ \A k \in 1..Len(before) : before[k] # c.seriesName
       THEN Append(before, c.seriesName)
       ELSE before

\* Lines 103-114 and 121-130: the Series of one name.
SeriesOf(filtered, name) ==
  LET pushed == SelectSeq(filtered, LAMBDA c : HasSeriesName(c) /\ c.seriesName = name)
      episodes == SortEpisodes(pushed) IN
  [name |-> name,
   logo |-> pushed[1].logo,
   seasonCount |-> Cardinality({SeasonOrOne(episodes[k]) : k \in 1..Len(episodes)}),
   episodeCount |-> Len(pushed),
   episodes |-> episodes]

\* Lines 89-137: groupedSeries.
groupedSeries(filtered) ==
  IF ~isSeriesView(filtered) THEN <<>>
  ELSE LET names == SeriesNames(filtered) IN
       [k \in 1..Len(names) |-> SeriesOf(filtered, names[k])]

\* A state that is null or a value v: the empty sequence, or <<v>>.
None == <<>>

\* Lines 28-37: the state of the component when it mounts.
InitialApp ==
  [loading |-> TRUE, error |-> "", channels |-> <<>>,
   selectedCategory |-> "", searchQuery |-> "",
   selectedChannel |-> None, selectedSeries |-> None, selectedSeason |-> None]

\* Lines 140-356: what the component renders.
View(a) ==
  LET filtered == filteredChannels(a.channels, a.selectedCategory, a.searchQuery) IN
  IF a.loading THEN "spinner"
  ELSE IF a.error # "" THEN "error"
  ELSE IF a.selectedSeries # None /\ a.selectedSeason # None THEN "episodes"
  ELSE IF a.selectedSeries # None THEN "seasons"
  ELSE IF isSeriesView(filtered) /\ ~Includes(a.searchQuery, "S") THEN "seriesList"
  ELSE IF Len(filtered) = 0 THEN "noContent"
  ELSE "channels"

\* The entries the sample catalogs are made of: a metadata line and a
\* playback line each.
SampleEntries ==
  { "#EXTINF:-1 group-title=\"Series\",Breaking Bad S01 E01\nhttp://tiralit.shop:8880/series/1.mp4",
    "#EXTINF:-1 group-title=\"Series\",Breaking Bad S00 E03\nhttp://tiralit.shop:8880/series/2.mp4",
    "#EXTINF:-1 group-title=\"Series\",Dark Recap\nhttp://tiralit.shop:8880/series/3.mp4",
    "#EXTINF:-1 group-title=\"Movies\",Inception (2010)\nhttp://tiralit.shop:8880/movie/4.mp4",
    "#EXTINF:-1 group-title=\"\",News\nhttp://tiralit.shop:8880/live/5.ts" }
\* The playlist texts the front end loads: at most MaxChannels sample entries.
CatalogTexts ==
  {JoinLines(es) : es \in UNION {[1..n -> SampleEntries] : n \in 0..MaxChannels}}
\* What is typed in the search box.
SampleQueries == {"", "INCEPTION", "Bad S"}

\* The sample playlists of the series pages: every entry has the provider's
\* id (so an entry is the same channel wherever it stands in the playlist);
\* two sources of one episode, an episode of season 0, a second series and
\* an entry that is no episode.
EpisodeEntries ==
  { "#EXTINF:-1 tvg-id=\"bb11\" group-title=\"Series\",Breaking Bad S01 E01\nhttp://tiralit.shop:8880/series/11.mp4",
    "#EXTINF:-1 tvg-id=\"bb11hd\" group-title=\"Series\",Breaking Bad S01 E01 HD\nhttp://tiralit.shop:8880/series/12.mp4",
    "#EXTINF:-1 tvg-id=\"bb03\" group-title=\"Series\",Breaking Bad S00 E03\nhttp://tiralit.shop:8880/series/13.mp4",
    "#EXTINF:-1 tvg-id=\"dk12\" group-title=\"Series\",Dark S01 E02\nhttp://tiralit.shop:8880/series/14.mp4",
    "#EXTINF:-1 tvg-id=\"dk00\" group-title=\"Series\",Dark Recap\nhttp://tiralit.shop:8880/series/15.mp4" }

\* The sample playlists of the Player: a movie and a live stream of the
\* provider, and a live stream served from another address.
StreamEntries ==
  { "#EXTINF:-1 group-title=\"TV\",Inception (2010)\nhttp://tiralit.shop:8880/movie/2.mp4",
    "#EXTINF:-1 group-title=\"TV\",News\nhttp://tiralit.shop:8880/live/1.ts",
    "#EXTINF:-1 group-title=\"TV\",Sports\nhttp://cdn.tiralit.shop:8880/live/7.ts" }

\* Lines 49-55: a playlist text arrives and is parsed.
Load(texts) ==
  /\ app.loading
  /\ \E text \in texts : \E parsed \in {parseM3U(text)} :
       app' = [app EXCEPT !.channels = parsed,
                          !.selectedCategory = IF Groups(parsed) # {}
                                               THEN FirstGroup(parsed) ELSE @,
                          !.loading = FALSE]
  /\ UNCHANGED <<M3U_BASE64, M3U_URL, playlistCache, playlistCacheTime, now, ticks,
                 plReq, pxReq, parse, player>>

\* Lines 44-55: the playlist arrives and is parsed.
LoadPlaylist == Load(CatalogTexts)
\* The same for the sample playlists of the series pages and of the Player:
\* at most MaxChannels entries.
LoadEpisodes ==
  Load({JoinLines(es) : es \in UNION {[1..n -> EpisodeEntries] : n \in 0..MaxChannels}})
LoadStreams ==
  Load({JoinLines(es) : es \in UNION {[1..n -> StreamEntries] : n \in 0..MaxChannels}})

\* Lines 46 and 56-60: the response is not ok, or the fetch fails.
LoadFailed ==
  /\ app.loading
  /\ app' = [app EXCEPT !.error = "Failed to load playlist. Check server configuration.",
                        !.loading = FALSE]
  /\ UNCHANGED <<M3U_BASE64, M3U_URL, playlistCache, playlistCacheTime, now, ticks,
                 plReq, pxReq, parse, player>>

\* Lines 162-167: a category of the side bar is clicked.
SelectCategory ==
  /\ ~app.loading /\ app.error = ""
  /\ \E name \in Groups(app.channels) :
       app' = [app EXCEPT !.selectedCategory = name, !.searchQuery = "",
                          !.selectedSeries = None, !.selectedSeason = None]
  /\ UNCHANGED <<M3U_BASE64, M3U_URL, playlistCache, playlistCacheTime, now, ticks,
                 plReq, pxReq, parse, player>>

\* Lines 187-209: the search box, there while no series is selected, changes.
Search ==
  /\ ~app.loading /\ app.error = "" /\ app.selectedSeries = None
  /\ \E value \in SampleQueries : app' = [app EXCEPT !.searchQuery = value]
  /\ UNCHANGED <<M3U_BASE64, M3U_URL, playlistCache, playlistCacheTime, now, ticks,
                 plReq, pxReq, parse, player>>

\* Lines 299, 267 and 188-194: a series card, a season card, the back button.
OpenSeries ==
  /\ ~app.loading /\ app.error = "" /\ app.selectedSeries = None
  /\ ~Includes(app.searchQuery, "S")
  /\ \E s \in {groupedSeries(filteredChannels(app.channels, app.selectedCategory,
                                               app.searchQuery))} :
       \E index \in 1..Len(s) : app' = [app EXCEPT !.selectedSeries = <<s[index]>>]
  /\ UNCHANGED <<M3U_BASE64, M3U_URL, playlistCache, playlistCacheTime, now, ticks,
                 plReq, pxReq, parse, player>>

OpenSeason ==
  /\ ~app.loading /\ app.error = ""
  /\ app.selectedSeries # None /\ app.selectedSeason = None
  /\ \E e \in 1..Len(app.selectedSeries[1].episodes) :
       app' = [app EXCEPT !.selectedSeason =
                 <<SeasonOrOne(app.selectedSeries[1].episodes[e])>>]
  /\ UNCHANGED <<M3U_BASE64, M3U_URL, playlistCache, playlistCacheTime, now, ticks,
                 plReq, pxReq, parse, player>>

Back ==
  /\ ~app.loading /\ app.error = "" /\ app.selectedSeries # None
  /\ app' = IF app.selectedSeason # None
            THEN [app EXCEPT !.selectedSeason = None]
            ELSE [app EXCEPT !.selectedSeries = None]
  /\ UNCHANGED <<M3U_BASE64, M3U_URL, playlistCache, playlistCacheTime, now, ticks,
                 plReq, pxReq, parse, player>>

\* ------------------------------------------------------------ Player
\* window.location.origin: where the page was loaded from.
Origin == "http://localhost:3000"

\* String.prototype.replace with a string pattern: the first occurrence.
Replace(s, pattern, by) ==
  LET i == IndexOf(s, pattern, 1) IN
  IF i = 0 THEN s ELSE SubSeq(s, 1, i - 1) \o by \o From(s, i + Len(pattern))

\* new URL(url, base).href for a base that is an origin and a url in its
\* serialised form: a url with a scheme stands for itself, the base is not
\* used; a path is resolved against the origin.
Href(url, base) ==
  IF StartsWith(ToLowerCase(url), "http://") \/ StartsWith(ToLowerCase(url), "https://")
  THEN url
  ELSE IF StartsWith(url, "/") THEN base \o url
  ELSE base \o "/" \o url

\* The Player is not mounted.
NoPlayer == [sink |-> "none", url |-> ""]

\* Lines 14-67: the effect of the Player for a channel, in a browser where
\* mpegts.isSupported() and video.canPlayType(...) answer as given.
PlayerEffect(channelUrl, mpegtsSupported, canPlayHls) ==
  LET relativeProxyUrl == Replace(channelUrl, "http://tiralit.shop:8880", "/stream-proxy")
      absoluteProxyUrl == Href(relativeProxyUrl, Origin)
      isMp4 == Len(channelUrl) >= 4
               /\ ToLowerCase(From(channelUrl, Len(channelUrl) - 3)) = ".mp4" IN
  IF isMp4 THEN [sink |-> "video", url |-> absoluteProxyUrl]
  ELSE IF mpegtsSupported THEN [sink |-> "mpegts", url |-> absoluteProxyUrl]
  ELSE IF canPlayHls THEN [sink |-> "video", url |-> absoluteProxyUrl]
  ELSE NoPlayer

\* The cards of the view: the filtered channels, or the episodes of the season.
Cards(a) ==
  IF View(a) = "channels"
  THEN filteredChannels(a.channels, a.selectedCategory, a.searchQuery)
  ELSE IF View(a) = "episodes"
  THEN SelectSeq(a.selectedSeries[1].episodes,
                 LAMBDA e : SeasonOrOne(e) = a.selectedSeason[1])
  ELSE <<>>

\* Lines 233 and 338, then 361-366 and the effect of the Player, which runs
\* when the Player mounts and when channel.url changes.
PlayChannel ==
  /\ \E cards \in {Cards(app)} : \E index \in 1..Len(cards) :
       \E mpegtsSupported \in BOOLEAN, canPlayHls \in BOOLEAN :
         /\ app' = [app EXCEPT !.selectedChannel = <<cards[index]>>]
         /\ player' = IF app.selectedChannel # None
                         /\ app.selectedChannel[1].url = cards[index].url
                      THEN player
                      ELSE PlayerEffect(cards[index].url, mpegtsSupported, canPlayHls)
  /\ UNCHANGED <<M3U_BASE64, M3U_URL, playlistCache, playlistCacheTime, now, ticks,
                 plReq, pxReq, parse>>

\* Line 364 and lines 69-73: the Player is closed.
ClosePlayer ==
  /\ app.selectedChannel # None
  /\ app' = [app EXCEPT !.selectedChannel = None]
  /\ player' = NoPlayer
  /\ UNCHANGED <<M3U_BASE64, M3U_URL, playlistCache, playlistCacheTime, now, ticks,
                 plReq, pxReq, parse>>

InitPlaylist ==
  /\ M3U_BASE64 \in Base64Settings
  /\ M3U_URL \in UrlSettings
  /\ playlistCache = Null
  /\ playlistCacheTime = 0
  /\ now = BootTime
  /\ ticks = 0
  /\ plReq = [r \in PlReqs |-> IdlePl]
  /\ pxReq = [r \in PxReqs |-> IdlePx]
  /\ parse = IdleParse
  /\ app = InitialApp
  /\ player = NoPlayer

NextPlaylist ==
  \/ \E r \in PlReqs : PlaylistOptions(r)
  \/ \E r \in PlReqs : PlaylistGet(r)
  \/ \E r \in PlReqs : FetchResponse(r)
  \/ \E r \in PlReqs : FetchData(r)
  \/ \E r \in PlReqs : FetchEnd(r)
  \/ \E r \in PlReqs : FetchError(r)
  \/ \E r \in PlReqs : FetchAbort(r)
  \/ Tick

PlaylistSpec == InitPlaylist /\ [][NextPlaylist]_vars

InitProxy ==
  /\ M3U_BASE64 = <<>>
  /\ M3U_URL = ""
  /\ playlistCache = Null
  /\ playlistCacheTime = 0
  /\ now = BootTime
  /\ ticks = 0
  /\ plReq = [r \in PlReqs |-> IdlePl]
  /\ pxReq = [r \in PxReqs |-> IdlePx]
  /\ parse = IdleParse
  /\ app = InitialApp
  /\ player = NoPlayer

\* What the upstream side of a request can do next.
UpstreamEvent(r) ==
  \/ UpstreamResponse(r)
  \/ UpstreamData(r)
  \/ UpstreamEnd(r)
  \/ UpstreamError(r)
  \/ UpstreamAbort(r)
  \/ DestroyError(r)

NextProxy ==
  \/ \E r \in PxReqs : Preflight(r)
  \/ \E r \in PxReqs : ProxyRequest(r)
  \/ \E r \in PxReqs : UpstreamEvent(r)
  \/ \E r \in PxReqs : ClientClose(r)

ProxySpec == InitProxy /\ [][NextProxy]_vars

\* The upstream keeps producing events (a response, data, an end or a
\* failure) while it can; a client may keep its connection open for ever.
FairProxySpec == ProxySpec /\ \A r \in PxReqs : WF_vars(UpstreamEvent(r))

InitParser ==
  /\ M3U_BASE64 = <<>>
  /\ M3U_URL = ""
  /\ playlistCache = Null
  /\ playlistCacheTime = 0
  /\ now = BootTime
  /\ ticks = 0
  /\ plReq = [r \in PlReqs |-> IdlePl]
  /\ pxReq = [r \in PxReqs |-> IdlePx]
  /\ \E content \in Playlists : parse = StartParse(content)
  /\ app = InitialApp
  /\ player = NoPlayer

NextParser ==
  \/ ParseLine
  \/ ParseReturn

InitLogo ==
  /\ M3U_BASE64 = <<>>
  /\ M3U_URL = ""
  /\ playlistCache = Null
  /\ playlistCacheTime = 0
  /\ now = BootTime
  /\ ticks = 0
  /\ plReq = [r \in PlReqs |-> IdlePl]
  /\ pxReq = [r \in PxReqs |-> IdlePx]
  /\ \E url \in SampleLogos : parse = StartParse(LogoPlaylist(url))
  /\ app = InitialApp
  /\ player = NoPlayer

\* parseM3U on the playlists of one entry with a logo.
LogoSpec == InitLogo /\ [][NextParser]_vars

ParserSpec == InitParser /\ [][NextParser]_vars

InitCatalog ==
  /\ M3U_BASE64 = <<>>
  /\ M3U_URL = ""
  /\ playlistCache = Null
  /\ playlistCacheTime = 0
  /\ now = BootTime
  /\ ticks = 0
  /\ plReq = [r \in PlReqs |-> IdlePl]
  /\ pxReq = [r \in PxReqs |-> IdlePx]
  /\ parse = IdleParse
  /\ app = InitialApp
  /\ player = NoPlayer

NextCatalog ==
  \/ LoadPlaylist
  \/ LoadFailed
  \/ SelectCategory
  \/ Search

CatalogSpec == InitCatalog /\ [][NextCatalog]_vars

NextBrowse ==
  \/ LoadEpisodes
  \/ LoadFailed
  \/ SelectCategory
  \/ Search
  \/ OpenSeries
  \/ OpenSeason
  \/ Back

\* The catalog and the series pages.
BrowseSpec == InitCatalog /\ [][NextBrowse]_vars

NextPlayer ==
  \/ LoadStreams
  \/ LoadFailed
  \/ SelectCategory
  \/ PlayChannel
  \/ ClosePlayer

\* The categories and the Player.
PlayerSpec == InitCatalog /\ [][NextPlayer]_vars

\* ------------------------------------------------ playlist: claims
Loaders == {"base64", "url", "data", "public"}
\* The requests whose load finished and was stored.
FinishedLoads ==
  {r \in PlReqs : plReq[r].st = "done" /\ plReq[r].src \in Loaders
                  /\ plReq[r].res.statusCode = 200}
InFlight == {r \in PlReqs : plReq[r].st \in {"connecting", "reading"}}

\* C1: while one load of the playlist is in flight (suspended at the remote
\* fetch), no second load is started: at most one request is inside fetchUrl.
SingleFlight == Cardinality(InFlight) <= 1

\* C2: a GET handled while the cache holds the text T of a finished load that
\* is younger than CACHE_DURATION is answered with exactly T, status 200, and
\* uses no loader source; for every text T, the empty one included.
CacheHit ==
  \A r \in PlReqs :
    (plReq[r].method = "GET" /\ ~plReq[r].seen.isNull /\ plReq[r].age < CACHE_DURATION)
      => /\ plReq[r].src = "cache"
         /\ plReq[r].res.statusCode = 200
         /\ plReq[r].res.body.kind = "text"
         /\ plReq[r].res.body.text = plReq[r].seen.str

\* C3: the pair (playlistCache, playlistCacheTime) is the initial empty pair
\* or the complete text of one finished load with the time that load finished,
\* and every playlist text served is the complete text of a finished load.
CacheAtomic ==
  /\ \/ Pair(playlistCache, playlistCacheTime) = EmptyPair
     \/ \E r \in FinishedLoads :
          /\ playlistCache = Str(plReq[r].full)
          /\ playlistCacheTime = plReq[r].doneAt
  /\ \A r \in PlReqs :
       (plReq[r].method = "GET" /\ plReq[r].res.headersSent /\ plReq[r].res.statusCode = 200)
         => \E q \in FinishedLoads : plReq[r].res.body.text = plReq[q].full

\* A load of a two-chunk text has finished and fills the cache while another
\* request has read only a part of its own, different, body.
CacheAtomicWitness ==
  \E r, q \in PlReqs :
    /\ q \in FinishedLoads /\ plReq[q].src = "url" /\ Len(plReq[q].full) >= 2
    /\ playlistCache = Str(plReq[q].full) /\ playlistCacheTime = plReq[q].doneAt
    /\ plReq[r].st = "reading" /\ plReq[r].data # <<>> /\ plReq[r].rest # <<>>
    /\ plReq[r].full # plReq[q].full

Proxied == {r \in PxReqs : pxReq[r].st = "proxying"}

\* C5: no state has a closed client connection whose upstream request is
\* still open (waiting for its response, or receiving it).
DisconnectCancels ==
  \A r \in PxReqs :
    pxReq[r].client = "closed" => pxReq[r].proxyReq \notin {"open", "response"}

\* The client left in the middle of the stream and the upstream was destroyed.
DisconnectCancelsWitness ==
  \E r \in Proxied :
    /\ pxReq[r].client = "closed" /\ pxReq[r].proxyReq = "destroyed"
    /\ pxReq[r].res.sent > 0 /\ ~pxReq[r].res.ended

\* C6: an upstream error before any byte was sent gives 502 with a JSON
\* payload (error kind and detail); an error after the head was sent writes no
\* new status and no payload; no response carries both streamed bytes under
\* the mirrored status and the 502 payload.
ProxyErrorOutcome ==
  \A r \in PxReqs :
    /\ pxReq[r].errorSeen = "before"
         => /\ pxReq[r].res.statusCode = 502
            /\ pxReq[r].res.body.kind = "json"
            /\ pxReq[r].res.body.error = "Stream unavailable"
            /\ pxReq[r].res.body.details # ""
            /\ pxReq[r].res.ended
    /\ pxReq[r].errorSeen = "after"
         => /\ pxReq[r].res.statusCode = pxReq[r].proxyRes.statusCode
            /\ pxReq[r].res.body.kind # "json"
    /\ pxReq[r].res.body.kind = "json"
         => /\ pxReq[r].res.sent = 0
            /\ pxReq[r].errorSeen = "before"

\* The upstream refused the connection and the client, still there, got the 502.
ProxyErrorOutcomeWitness ==
  \E r \in Proxied :
    /\ pxReq[r].errorSeen = "before" /\ pxReq[r].client = "open"
    /\ pxReq[r].res.statusCode = 502
    /\ pxReq[r].res.body.details = "connect ECONNREFUSED"

\* C7: every proxied request eventually reaches Closed: its response is
\* ended, or its client has gone.
ProxyEventuallyClosed ==
  \A r \in PxReqs :
    (pxReq[r].st = "proxying") ~> (pxReq[r].res.ended \/ pxReq[r].client = "closed")

IsPrefix(s, t) == Len(s) <= Len(t) /\ s = SubSeq(t, 1, Len(s))
PathStream == <<"Received", "UpstreamConnecting", "UpstreamHeaders", "Streaming", "Closed">>
PathError == <<"Received", "UpstreamConnecting", "UpstreamError", "Closed">>
PathLateError ==
  <<"Received", "UpstreamConnecting", "UpstreamHeaders", "Streaming", "UpstreamError", "Closed">>

\* C8 as stated: a proxied request creates exactly one upstream request and
\* its states follow Received -> UpstreamConnecting -> UpstreamHeaders ->
\* Streaming -> Closed or Received -> UpstreamConnecting -> UpstreamError -> Closed.
NoRetryTwoPaths ==
  \A r \in Proxied :
    /\ pxReq[r].upstreams = 1
    /\ IsPrefix(pxReq[r].hist, PathStream) \/ IsPrefix(pxReq[r].hist, PathError)

\* C8 as amended: exactly one upstream request, and the states follow one of
\* the two paths above or, when the upstream errors after its head arrived and
\* before any byte was sent, UpstreamHeaders -> Streaming -> UpstreamError -> Closed.
NoRetry ==
  \A r \in Proxied :
    /\ pxReq[r].upstreams = 1
    /\ \/ IsPrefix(pxReq[r].hist, PathStream)
       \/ IsPrefix(pxReq[r].hist, PathError)
       \/ IsPrefix(pxReq[r].hist, PathLateError)

\* The upstream attempt failed, the request is closed, and it was the only one.
NoRetryWitness ==
  \E r \in Proxied :
    /\ pxReq[r].hist = PathError /\ pxReq[r].proxyReq = "failed"
    /\ pxReq[r].upstreams = 1

\* C9: every OPTIONS request, on any path, is answered 200 with the permissive
\* cross-origin headers and creates no upstream request and no playlist load.
PreflightShortCircuit ==
  \A r \in PxReqs :
    (pxReq[r].st # "idle" /\ pxReq[r].method = "OPTIONS")
      => /\ pxReq[r].st = "done"
         /\ pxReq[r].res.statusCode = 200 /\ pxReq[r].res.ended
         /\ pxReq[r].res.headers["access-control-allow-origin"] = "*"
         /\ pxReq[r].res.headers["access-control-allow-methods"] = "GET, POST, OPTIONS"
         /\ "access-control-allow-headers" \in DOMAIN pxReq[r].res.headers
         /\ pxReq[r].upstreams = 0 /\ pxReq[r].proxyReq = "none"
         /\ playlistCache = Null /\ \A q \in PlReqs : plReq[q].st = "idle"

\* An OPTIONS request under /stream-proxy, carrying a Range header, was answered.
PreflightShortCircuitWitness ==
  \E r \in PxReqs :
    /\ pxReq[r].method = "OPTIONS" /\ pxReq[r].mount = "/stream-proxy"
    /\ pxReq[r].st = "done" /\ HasRange(pxReq[r].headers)

SameRange(h1, h2) ==
  /\ ("range" \in DOMAIN h1) = ("range" \in DOMAIN h2)
  /\ "range" \in DOMAIN h1 => h1["range"] = h2["range"]

\* C10: the headers sent upstream are exactly the seven fixed ones, plus Range
\* with the inbound value if and only if the inbound request has a Range
\* header; inbound requests that differ only in other headers give the same
\* upstream request.
UpstreamHeadersReplaced ==
  \A r \in Proxied :
    LET inbound == pxReq[r].headers
        sent == pxReq[r].proxyOptions.headers
        fixed == {"User-Agent", "Accept", "Accept-Language", "Accept-Encoding",
                  "Connection", "Host", "Icy-MetaData"}
    IN /\ DOMAIN sent = fixed \cup (IF "range" \in DOMAIN inbound THEN {"Range"} ELSE {})
       /\ "range" \in DOMAIN inbound => sent["Range"] = inbound["range"]
       /\ sent["Accept-Encoding"] = "identity"
       /\ sent["Host"] = "tiralit.shop:8880"
       /\ \A other \in InboundHeaders :
            SameRange(inbound, other)
              => ProxyOptions(pxReq[r].method, pxReq[r].url, other) = pxReq[r].proxyOptions

\* The head of an upstream response has reached the client: the pipe wrote
\* it (with the first chunk, or at the end of an empty body).
HeadRelayed(r) ==
  /\ pxReq[r].proxyRes.statusCode # 0
  /\ pxReq[r].res.headersSent
  /\ pxReq[r].res.body.kind # "json"

\* The response of request r has the upstream's status and every upstream
\* header but transfer-encoding, with the upstream's value.
Relays(r) ==
  /\ pxReq[r].res.statusCode = pxReq[r].proxyRes.statusCode
  /\ \A k \in DOMAIN pxReq[r].proxyRes.headers \ {"transfer-encoding"} :
       /\ k \in DOMAIN pxReq[r].res.headers
       /\ pxReq[r].res.headers[k] = pxReq[r].proxyRes.headers[k]
  /\ "transfer-encoding" \notin DOMAIN pxReq[r].res.headers

\* Header maps naming transfer-encoding in several letter cases.
LetterCases ==
  { ("transfer-encoding" :> "chunked") @@ ("content-type" :> "video/mp2t"),
    ("Transfer-Encoding" :> "chunked") @@ ("content-type" :> "video/mp2t"),
    ("TRANSFER-ENCODING" :> "chunked") @@ ("content-type" :> "video/mp2t") }

\* transfer-encoding is left out whatever the letter case of its name.
DropsTransferEncoding ==
  \A up \in LetterCases :
    ForwardHeaders(NoHeaders, up, DOMAIN up) = ("content-type" :> "video/mp2t")

\* C11 as stated: for every upstream response, the response sent to the
\* client has the upstream's status code and every upstream header with its
\* upstream value, except transfer-encoding in any letter case.
ResponseRelayAlways ==
  /\ DropsTransferEncoding
  /\ \A r \in Proxied :
       (pxReq[r].proxyRes.statusCode # 0 /\ pxReq[r].res.headersSent) => Relays(r)

\* C11 as amended: the same for every upstream response whose head reaches
\* the client, that is, unless the upstream request errors before the first
\* byte is sent (the client then gets the 502 response).
ResponseRelay ==
  /\ DropsTransferEncoding
  /\ \A r \in Proxied : HeadRelayed(r) => Relays(r)

\* A chunked 200 response is being streamed to the client.
ResponseRelayWitness ==
  \E r \in Proxied :
    /\ HeadRelayed(r) /\ pxReq[r].res.sent > 0
    /\ "transfer-encoding" \in DOMAIN pxReq[r].proxyRes.headers
    /\ pxReq[r].res.statusCode = 200
    /\ pxReq[r].res.headers["content-type"] = "video/mp2t"

\* C12: for every upstream response, whatever headers the upstream sent, the
\* response delivered to the client carries Access-Control-Allow-Origin: *,
\* Access-Control-Allow-Methods: GET, OPTIONS and Access-Control-Expose-Headers
\* listing Content-Length, Content-Range and Content-Type.
PermissiveCors ==
  \A r \in Proxied :
    (pxReq[r].proxyRes.statusCode # 0 /\ pxReq[r].res.headersSent)
      => /\ pxReq[r].res.headers["access-control-allow-origin"] = "*"
         /\ pxReq[r].res.headers["access-control-allow-methods"] = "GET, OPTIONS"
         /\ pxReq[r].res.headers["access-control-expose-headers"]
              = "Content-Length, Content-Range, Content-Type"

\* ------------------------------------------- playlist: failures, sources
\* The GET requests that are over, or stopped for ever, with neither a cache
\* hit nor a stored load.
LoadFailures ==
  {r \in PlReqs : /\ plReq[r].method = "GET"
                  /\ plReq[r].st \in {"done", "hung"}
                  /\ plReq[r].src # "cache"
                  /\ r \notin FinishedLoads}

\* C13: a request whose source failed (non-200 or error of the remote fetch,
\* unreadable file, no source) is answered with a structured error (kind and
\* detail), and has not written the cache pair.
LoadFailure ==
  \A r \in LoadFailures :
    /\ plReq[r].res.ended
    /\ plReq[r].res.statusCode \in {404, 500}
    /\ plReq[r].res.body.kind = "json"
    /\ plReq[r].res.body.error # ""
    /\ plReq[r].res.body.details # ""
    /\ plReq[r].stored = EmptyPair

\* C14: a request that misses the cache uses the first configured source in
\* the order Base64 text, URL, data/playlist.m3u, public/canais.m3u; the files
\* are read only when neither variable is set; the text sent and cached is
\* that source's text alone; with no source the answer is the 404 'Playlist
\* not configured' and the request stores nothing.
ResolutionOrder ==
  \A r \in PlReqs :
    (plReq[r].method = "GET" /\ plReq[r].src # "cache") =>
      LET f == plReq[r].files
          first == IF M3U_BASE64 # <<>> THEN "base64"
                   ELSE IF M3U_URL # "" THEN "url"
                   ELSE IF f[1].exists THEN "data"
                   ELSE IF f[2].exists THEN "public"
                   ELSE "unconfigured"
          text == CASE first = "base64" -> Base64ToUtf8(M3U_BASE64)
                    [] first = "url" -> plReq[r].full
                    [] first = "data" -> f[1].text
                    [] first = "public" -> f[2].text
                    [] OTHER -> <<>>
      IN /\ (f # <<>>) <=> (M3U_BASE64 = <<>> /\ M3U_URL = "")
         /\ plReq[r].src = first
         /\ r \in FinishedLoads
              => /\ plReq[r].res.body.text = text
                 /\ plReq[r].stored.cache = Str(text)
         /\ first = "unconfigured"
              => /\ plReq[r].res.statusCode = 404
                 /\ plReq[r].res.body.kind = "json"
                 /\ plReq[r].res.body.error = "Playlist not configured"
                 /\ plReq[r].stored = EmptyPair

\* Both files were there: the private one was served, alone. And another
\* request found no source at all.
ResolutionOrderWitness ==
  \E r, q \in PlReqs :
    /\ r \in FinishedLoads /\ plReq[r].src = "data"
    /\ plReq[r].files # <<>> /\ plReq[r].files[2].exists
    /\ plReq[r].res.body.text = <<"a">>
    /\ plReq[q].src = "unconfigured" /\ plReq[q].res.statusCode = 404

\* --------------------------------------------------- parser: claims
\* A playback line: not blank and not starting with '#', once trimmed.
IsPlayback(line) == line # "" /\ At(line, 1) # "#"
\* The first n lines, trimmed.
Trimmed(lines, n) == [j \in 1..n |-> Trim(lines[j])]
PlaybackLines(lines, n) == SelectSeq(Trimmed(lines, n), IsPlayback)
BaseFields == {"id", "name", "group", "logo", "url"}

\* C15: after any number of lines, the channels are the trimmed playback lines
\* read so far, one entry each, in source order, as their url; no url is empty
\* and every entry has its five fields.
OneEntryPerPlaybackLine ==
  parse.st # "idle" =>
    LET urls == PlaybackLines(parse.lines, parse.i) IN
    /\ Len(parse.channels) = Len(urls)
    /\ \A k \in 1..Len(urls) :
         /\ parse.channels[k].url = urls[k]
         /\ parse.channels[k].url # ""
         /\ BaseFields \subseteq DOMAIN parse.channels[k]

\* A text of a blank line and two playback lines, one of them with white
\* space around it, was parsed to the end: two entries.
OneEntryPerPlaybackLineWitness ==
  /\ parse.st = "returned"
  /\ parse.lines = <<"  ", " http://tiralit.shop:8880/live/1.ts\r",
                     "http://tiralit.shop:8880/movie/2.mp4">>
  /\ Len(parse.channels) = 2
  /\ parse.channels[1].url = "http://tiralit.shop:8880/live/1.ts"

\* The position of the k-th playback line (0 for k = 0).
PlaybackPosition(lines, k) ==
  IF k = 0 THEN 0
  ELSE CHOOSE j \in 1..Len(lines) :
         /\ IsPlayback(Trim(lines[j]))
         /\ Cardinality({m \in 1..j : IsPlayback(Trim(lines[m]))}) = k
\* The #EXTINF lines between the playback lines k-1 and k.
ExtinfBefore(lines, k) ==
  {j \in (PlaybackPosition(lines, k - 1) + 1)..(PlaybackPosition(lines, k) - 1) :
     StartsWith(Trim(lines[j]), "#EXTINF:")}

\* C16: the name, group, logo and id of the k-th entry are those the last
\* #EXTINF line after the previous playback line gives; with no such line the
\* entry is 'Unknown Channel', 'Uncategorized', no logo and 'ch-<k-1>'.
NoMetadataLeak ==
  parse.st # "idle" =>
    \A k \in 1..Len(parse.channels) :
      LET c == parse.channels[k]
          ext == ExtinfBefore(parse.lines, k)
          last == CHOOSE j \in ext : \A m \in ext : m <= j
          url == Trim(parse.lines[PlaybackPosition(parse.lines, k)]) IN
      IF ext = {}
      THEN /\ c.name = "Unknown Channel" /\ c.group = "Uncategorized"
           /\ c.logo = "" /\ c.id = "ch-" \o ToString(k - 1)
           /\ DOMAIN c = BaseFields
      ELSE c = NewChannel(Extinf(Trim(parse.lines[last])), url, k - 1)

\* A #EXTINF line and two playback lines: the first entry has the metadata,
\* the second has the defaults.
NoMetadataLeakWitness ==
  /\ parse.st = "returned"
  /\ Len(parse.lines) = 3 /\ Len(parse.channels) = 2
  /\ parse.channels[1].name = "Breaking Bad S02 E05" /\ parse.channels[1].group = "Series"
  /\ parse.channels[1].id = "bb"
  /\ parse.channels[2].name = "Unknown Channel" /\ parse.channels[2].id = "ch-1"
  /\ parse.channels[2].group = "Uncategorized" /\ parse.channels[2].logo = ""

SeriesFields == {"seriesName", "season", "episode"}

\* C17: every entry has all of seriesName, season and episode or none of
\* them; when it has them, season and episode are at least 1 and seriesName
\* is a trimmed string that is not empty.
SeriesFieldsPositive ==
  \A k \in 1..Len(parse.channels) :
    LET c == parse.channels[k] IN
    /\ SeriesFields \subseteq DOMAIN c \/ SeriesFields \cap DOMAIN c = {}
    /\ SeriesFields \subseteq DOMAIN c
         => /\ c.season >= 1 /\ c.episode >= 1
            /\ c.seriesName # "" /\ Trim(c.seriesName) = c.seriesName

\* The name read as <title> S<digits> E<digits> to its end, the title being
\* its first k characters.
TrailingPatternAt(name, k) ==
  LET sp == SpaceRun(name, k + 1)
      s == k + 1 + sp
      d1 == DigitRun(name, s + 1)
      sp2 == SpaceRun(name, s + 1 + d1)
      e == s + 1 + d1 + sp2
      d2 == DigitRun(name, e + 1) IN
  [ok |-> /\ sp >= 1 /\ At(name, s) \in {"S", "s"} /\ d1 >= 1
          /\ At(name, e) \in {"E", "e"} /\ d2 >= 1
          /\ e + d2 = Len(name),
   title |-> SubSeq(name, 1, k),
   season |-> SubSeq(name, s + 1, s + d1),
   episode |-> SubSeq(name, e + 1, e + d2)]
TrailingTitles(name) == {k \in 0..Len(name) : TrailingPatternAt(name, k).ok}

\* C18: an entry has series fields if and only if its name ends with
\* <title> S<digits> E<digits>; seriesName is then the trimmed title and
\* season and episode are the decimal values of the two digit groups.
SeriesInference ==
  \A k \in 1..Len(parse.channels) :
    LET c == parse.channels[k]
        titles == TrailingTitles(c.name)
        t == TrailingPatternAt(c.name, CHOOSE n \in titles : \A m \in titles : n <= m) IN
    /\ (SeriesFields \cap DOMAIN c # {}) <=> (titles # {})
    /\ titles # {} =>
         /\ c.seriesName = Trim(t.title)
         /\ c.season = ParseInt(t.season)
         /\ c.episode = ParseInt(t.episode)

\* --------------------------------------------------- catalog: claims
\* The entries a category and a search text keep, '' meaning no filter.
RECURSIVE Keep(_, _, _)
Keep(channels, category, text) ==
  IF channels = <<>> THEN <<>>
  ELSE LET c == Head(channels)
           kept == /\ category # "" => c.group = category
                   /\ text # "" => Includes(ToLowerCase(c.name), ToLowerCase(text)) IN
       (IF kept THEN <<c>> ELSE <<>>) \o Keep(Tail(channels), category, text)

\* The categories and search texts a filter is made of.
Categories == Groups(app.channels) \cup {""}

\* C19: for every optional category and optional search text, the filtered
\* list is the entries, in source order, of that group (when a category is
\* given) whose name contains the text whatever the letter case (when a text
\* is given); with neither given it is the whole channel sequence.
Filtering ==
  \A category \in Categories, text \in SampleQueries :
    filteredChannels(app.channels, category, text) = Keep(app.channels, category, text)

\* The entries that carry a seriesName.
WithSeriesName(filtered) ==
  Cardinality({k \in 1..Len(filtered) : "seriesName" \in DOMAIN filtered[k]})

\* C20: for every filtered set (every category and search text the component
\* can be in), the mode is series if and only if more than half of its entries
\* carry a seriesName; one half or less, and the empty set, give flat mode.
GroupingMode ==
  LET filtered == filteredChannels(app.channels, app.selectedCategory, app.searchQuery) IN
  isSeriesView(filtered)
    <=> (Len(filtered) > 0 /\ 2 * WithSeriesName(filtered) > Len(filtered))

\* Four entries in the category, two of them episodes: exactly one half, flat
\* mode; the search text that keeps the two episodes gives series mode.
GroupingModeWitness ==
  LET all == filteredChannels(app.channels, app.selectedCategory, "")
      found == filteredChannels(app.channels, app.selectedCategory, app.searchQuery) IN
  /\ app.selectedCategory = "Series" /\ app.searchQuery = "Bad S"
  /\ Len(all) = 4 /\ WithSeriesName(all) = 2 /\ ~isSeriesView(all)
  /\ Len(found) = 2 /\ isSeriesView(found)

\* ---------------------------------------------------- browse: claims
\* C21: when the playlist is loaded and no series is selected, the grouped
\* series list is shown exactly when more than half of the filtered entries
\* carry a seriesName, and the flat list (or its empty form) otherwise,
\* whatever the category and the search text.
PresentationFollowsHeuristic ==
  (~app.loading /\ app.error = "" /\ app.selectedSeries = None) =>
    LET filtered == filteredChannels(app.channels, app.selectedCategory, app.searchQuery) IN
    /\ View(app) = "seriesList"
         <=> (Len(filtered) > 0 /\ 2 * WithSeriesName(filtered) > Len(filtered))
    /\ View(app) \in {"seriesList", "channels", "noContent"}

\* The filtered list of the state, and its series.
Filtered == filteredChannels(app.channels, app.selectedCategory, app.searchQuery)
\* The episodes list of the series of a name; none if there is no such series.
EpisodesOf(series, name) ==
  LET at == {k \in 1..Len(series) : series[k].name = name} IN
  IF at = {} THEN <<>> ELSE series[CHOOSE k \in at : TRUE].episodes
\* A sequence with the entries at two positions exchanged.
Swap(seq, i, j) ==
  [k \in 1..Len(seq) |-> IF k = i THEN seq[j] ELSE IF k = j THEN seq[i] ELSE seq[k]]
\* (season, episode) with unset values as 0, and its ascending order.
SeasonEpisode(e) ==
  <<IF "season" \in DOMAIN e THEN e.season ELSE 0,
    IF "episode" \in DOMAIN e THEN e.episode ELSE 0>>
Ascending(a, b) == a[1] < b[1] \/ (a[1] = b[1] /\ a[2] <= b[2])

\* C22: the episodes of every series are in ascending order of (season,
\* episode), unset values counting as 0, and the filtered entries in any other
\* order (any two of them exchanged; every order is a playlist's) give every
\* series the same episodes sequence.
EpisodeOrdering ==
  \A filtered \in {Filtered} : \A series \in {groupedSeries(filtered)} :
    /\ \A s \in 1..Len(series) : \A i, j \in 1..Len(series[s].episodes) :
         i < j => Ascending(SeasonEpisode(series[s].episodes[i]),
                            SeasonEpisode(series[s].episodes[j]))
    /\ \A i, j \in 1..Len(filtered) : i < j =>
         \A other \in {groupedSeries(Swap(filtered, i, j))} :
           \A s \in 1..Len(series) :
             EpisodesOf(other, series[s].name) = series[s].episodes

\* ---------------------------------------------------- player: claims
\* The path and the query of an absolute URL: what follows scheme://host:port.
PathAndQuery(url) ==
  LET hostAt == IndexOf(url, "://", 1) + 3
      slash == IndexOf(url, "/", hostAt) IN
  IF slash = 0 THEN "/" ELSE From(url, slash)
\* Line 154: req.url inside app.use(mount, ...) for a URL of the page's
\* origin is what follows the origin and the mount.
UrlUnder(mount, href) == From(href, Len(Origin) + Len(mount) + 1)

\* C23: for every channel the Player plays, the URL handed to the video
\* element or to the mpegts player is the page's origin, /stream-proxy and
\* the path and query of the channel's url, and the upstream request the proxy
\* makes for it has that same path and query.
PlayedThroughProxy ==
  (app.selectedChannel # None /\ player.sink # "none") =>
    \A target \in {PathAndQuery(app.selectedChannel[1].url)} :
      /\ player.url = Origin \o "/stream-proxy" \o target
      /\ \A headers \in InboundHeaders :
           ProxyOptions("GET", UrlUnder("/stream-proxy", player.url),
                        headers).path = target

\* ------------------------------------------------------ logo: claims
\* The logo URL of the playlist being parsed.
RawLogo == CHOOSE url \in SampleLogos : LogoPlaylist(url) = parse.content
\* The identifiers id for which url has /images/<id>.jpg or
\* /images/<id>_small.jpg at position i: one letter or digit at least.
ImageIdsAt(url, i) ==
  {SubSeq(url, i + 8, i + 7 + n) : n \in
     {n \in 1..Len(url) :
        /\ StartsWith(From(url, i), "/images/")
        /\ \A k \in (i + 8)..(i + 7 + n) : At(url, k) \in AlnumChars
        /\ \/ StartsWith(From(url, i + 8 + n), ".jpg")
           \/ StartsWith(From(url, i + 8 + n), "_small.jpg")}}
ImagePositions(url) == {i \in 1..Len(url) : ImageIdsAt(url, i) # {}}
\* A URL of the broken host: one that names the host assistirpainel.net.
OnBrokenHost(url) == \E i \in 1..Len(url) : StartsWith(From(url, i), "assistirpainel.net")

Count(seq, c) == Cardinality({k \in 1..Len(seq) : seq[k] = c})
RECURSIVE SumEpisodeCount(_)
SumEpisodeCount(series) ==
  IF series = <<>> THEN 0
  ELSE series[1].episodeCount + SumEpisodeCount(SubSeq(series, 2, Len(series)))

\* C25: in series mode (more than half of the filtered entries carry a
\* seriesName) an entry with a seriesName stands in the episodes of the one
\* series of that name as often as in the filtered list, and in no other
\* series; an entry without a seriesName stands in no series; every episode is
\* a filtered entry; episodeCount is the length of episodes; and the counts
\* add up to the number of filtered entries with a seriesName.
SeriesPartition ==
  \A filtered \in {Filtered} : \A series \in {groupedSeries(filtered)} :
    (2 * WithSeriesName(filtered) > Len(filtered)) =>
      /\ \A k \in 1..Len(filtered) : \A c \in {filtered[k]} :
           /\ "seriesName" \in DOMAIN c =>
                Cardinality({s \in 1..Len(series) : series[s].name = c.seriesName}) = 1
           /\ \A s \in 1..Len(series) :
                Count(series[s].episodes, c) =
                  IF "seriesName" \in DOMAIN c /\ c.seriesName = series[s].name
                  THEN Count(filtered, c) ELSE 0
      /\ \A s \in 1..Len(series) :
           /\ \A e \in 1..Len(series[s].episodes) : Count(filtered, series[s].episodes[e]) > 0
           /\ series[s].episodeCount = Len(series[s].episodes)
      /\ SumEpisodeCount(series) = WithSeriesName(filtered)

\* Series mode with two series, one of them with two episodes, and an entry
\* that is no episode.
SeriesPartitionWitness ==
  \E filtered \in {Filtered} : \E series \in {groupedSeries(filtered)} :
    /\ ~app.loading /\ Len(filtered) = 4 /\ WithSeriesName(filtered) = 3
    /\ Len(series) = 2
    /\ \E s \in 1..2 : series[s].episodeCount = 2

\* The season number of an episode, 1 for an episode that has none.
SeasonNumber(e) == IF "season" \in DOMAIN e THEN e.season ELSE 1

\* C26: the seasonCount of every series is the number of distinct season
\* numbers of its episodes, an episode without a season number counting as
\* season 1.
SeasonCount ==
  \A series \in {groupedSeries(Filtered)} : \A s \in 1..Len(series) :
    series[s].seasonCount =
      Cardinality({SeasonNumber(series[s].episodes[e]) : e \in 1..Len(series[s].episodes)})

\* ------------------------------------------- playlist: overlapping loads
\* Of a set of requests, the one that started last.
LastStarted(S) == CHOOSE r \in S : \A q \in S : q <= r

\* C27: a load that finishes never overwrites the result of a load that
\* started after it; once loads have finished, the cache holds the text of
\* the one of them that started last; and playlistCacheTime never decreases.
NoCacheRegression ==
  [][ /\ \A q \in FinishedLoads' \ FinishedLoads : \A r \in FinishedLoads : r < q
      /\ FinishedLoads' # {} =>
           playlistCache' = Str(plReq'[LastStarted(FinishedLoads')].full)
      /\ playlistCacheTime' >= playlistCacheTime ]_vars

====
